---- MODULE Spec2Model ----
(***************************************************************************)
(* Model of src/bulk.py: the flattening engine (safe_value,                *)
(* flatten_segment_to_fields, generate_*_segment_row,                      *)
(* generate_all_segment_rows) and the CSV emission loop of                 *)
(* generate_csv_from_json.                                                 *)
(*                                                                         *)
(* Representation.                                                         *)
(*   A Python str is a sequence of one-character strings:                  *)
(*   "a|b" is <<"a", "|", "b">> and '' is <<>>.                            *)
(*   A value produced by json.load is a tagged record:                     *)
(*     None        [t |-> "null"]                                          *)
(*     str         [t |-> "str",  s |-> <<chars>>]                         *)
(*     int         [t |-> "int",  n |-> n]                                 *)
(*     bool        [t |-> "bool", b |-> TRUE]                              *)
(*     list        [t |-> "list", items |-> <<values>>]                    *)
(*     dict        [t |-> "dict", items |-> <<[k |-> key, v |-> value]>>]  *)
(*   A dict keeps its entries in insertion order, keys unique (json.load   *)
(*   keeps the last of duplicate keys); a key is a TLA+ string.            *)
(*   A call that can raise returns [ok |-> FALSE, ...] for the exception   *)
(*   and [ok |-> TRUE, val |-> result] otherwise.                          *)
(***************************************************************************)
EXTENDS Integers, Sequences, FiniteSets, TLC

VARIABLES
    call,             \* engine: the pending call [fn, ...arguments]
    ret,              \* engine: what the call returned
    epc,              \* engine: "idle" | "ready" | "returned"
    records,          \* pipeline: data.get('Records', [])
    pc,               \* pipeline: position in generate_csv_from_json
    idx,              \* pipeline: enumerate index of the loop (envelopes handled)
    all_rows_batch,   \* pipeline: the batch accumulator
    rows_written,     \* pipeline: counter of rows handed to the writer
    problematic_rows, \* pipeline: issue counter
    csvfile           \* pipeline: rows written to the sink, header first

vars == <<call, ret, epc, records, pc, idx, all_rows_batch, rows_written,
          problematic_rows, csvfile>>

engineVars == <<call, ret, epc>>
pipelineVars == <<records, pc, idx, all_rows_batch, rows_written,
                  problematic_rows, csvfile>>

-----------------------------------------------------------------------------
(* Bounds of the model and constants of the program *)

MaxStrLen == 4
MaxWidth == 2
MaxOverflow == 10
MaxSmall == 2
MaxExtra == 1
MaxLong == 1

PadTo == 52
RowWidth == 59
MaxCellLen == 8000
batch_size == 1000

-----------------------------------------------------------------------------
(* JSON values *)

Null == [t |-> "null"]
Str(s) == [t |-> "str", s |-> s]
Int_(n) == [t |-> "int", n |-> n]
Bool(b) == [t |-> "bool", b |-> b]
List(items) == [t |-> "list", items |-> items]
Dict(items) == [t |-> "dict", items |-> items]
KV(k, v) == [k |-> k, v |-> v]

Min(a, b) == IF a < b THEN a ELSE b

\* The sequence f as a tuple with its elements evaluated: a Python list or
\* str holds its elements, it does not recompute them when it is read
ListOf(f) == f \o <<>>

\* Python truthiness of a JSON value: `if pn:`, `if garbage_per_segment`
Truthy(v) ==
    CASE v.t = "null" -> FALSE
      [] v.t = "str"  -> v.s # <<>>
      [] v.t = "int"  -> v.n # 0
      [] v.t = "bool" -> v.b
      [] v.t = "list" -> v.items # <<>>
      [] v.t = "dict" -> v.items # <<>>

\* dict.get(key, default)
dict_get(d, key, default) ==
    IF \E i \in 1..Len(d.items) : d.items[i].k = key
    THEN d.items[CHOOSE i \in 1..Len(d.items) : d.items[i].k = key].v
    ELSE default

-----------------------------------------------------------------------------
(* str operations *)

Digits == <<"0", "1", "2", "3", "4", "5", "6", "7", "8", "9">>

RECURSIVE NatToStr(_)
NatToStr(n) ==
    IF n < 10 THEN <<Digits[n + 1]>>
    ELSE Append(NatToStr(n \div 10), Digits[(n % 10) + 1])

\* str(val) of a scalar
PyStr(v) ==
    CASE v.t = "null" -> <<"N", "o", "n", "e">>
      [] v.t = "str"  -> v.s
      [] v.t = "int"  -> IF v.n < 0 THEN <<"-">> \o NatToStr(0 - v.n)
                         ELSE NatToStr(v.n)
      [] v.t = "bool" -> IF v.b THEN <<"T", "r", "u", "e">>
                         ELSE <<"F", "a", "l", "s", "e">>

\* The whitespace characters of str.strip() and str.split() that are written
\* raw in a string of the module: U+000B, U+001C..U+001F, U+0085, U+00A0 and
\* U+1680
VT == ""
FS == ""
GS == ""
RS == ""
US == ""
NEL == ""
NBSP == " "
OghamSpace == " "

\* str.isspace() of one character. Python's other whitespace characters
\* (U+2000..U+200A, U+2028, U+2029, U+202F, U+205F, U+3000) cannot be written
\* in a string of the module and are not characters of the model.
Whitespace ==
    {" ", "\t", "\n", "\r", "\f", VT, FS, GS, RS, US, NEL, NBSP, OghamSpace}
IsSpace(c) == c \in Whitespace

\* str.strip(): drop the leading and the trailing whitespace
str_strip(s) ==
    IF \A i \in 1..Len(s) : IsSpace(s[i]) THEN <<>>
    ELSE LET first == CHOOSE i \in 1..Len(s) :
                          /\ ~IsSpace(s[i])
                          /\ \A j \in 1..(i - 1) : IsSpace(s[j])
             last == CHOOSE i \in 1..Len(s) :
                          /\ ~IsSpace(s[i])
                          /\ \A j \in (i + 1)..Len(s) : IsSpace(s[j])
         IN SubSeq(s, first, last)

\* str.replace(old, new) for one-character old and new
str_replace(s, old, new) ==
    ListOf([i \in 1..Len(s) |-> IF s[i] = old THEN new ELSE s[i]])

\* ' '.join(s.split()): the whitespace-separated words of s joined by one
\* space each. A character of a whitespace run after its first is marked
\* and removed; the first becomes the joining space.
Dropped == "DROP"
NotDropped(c) == c # Dropped
join_words(w) ==
    SelectSeq(ListOf([i \in 1..Len(w) |->
                        IF IsSpace(w[i])
                        THEN (IF IsSpace(w[i - 1]) THEN Dropped ELSE " ")
                        ELSE w[i]]),
              NotDropped)
join_split(s) == join_words(str_strip(s))

\* s[:n]
str_prefix(s, n) == SubSeq(s, 1, Min(n, Len(s)))

-----------------------------------------------------------------------------
(* safe_value *)

NullWord == <<"n", "u", "l", "l">>

\* Mutant of safe_value: the whitespace of the string is not collapsed
safe_value_no_split(val) ==
    IF \/ val.t = "null"
       \/ (val.t = "str" /\ (val.s = <<>> \/ val.s = NullWord))
    THEN <<>>
    ELSE str_replace(
             str_replace(str_replace(str_strip(PyStr(val)), "\n", " "), "\r", " "),
             "|", "-")

safe_value(val) ==
    IF \/ val.t = "null"
       \/ (val.t = "str" /\ (val.s = <<>> \/ val.s = NullWord))
    THEN <<>>
    ELSE LET s1 == str_strip(PyStr(val))
             s2 == str_replace(str_replace(s1, "\n", " "), "\r", " ")
             s3 == join_split(s2)
         IN str_replace(s3, "|", "-")

-----------------------------------------------------------------------------
(* flatten_segment_to_fields *)

IsComposite(v) == v.t \in {"dict", "list"}

RECURSIVE flatten_segment_to_fields(_), flatten_dict_entries(_, _),
          flatten_value_items(_, _), flatten_list_items(_, _)

\* lines 58-62: `for item in value` for a list that is the value of a dict entry
flatten_value_items(value, i) ==
    IF i > Len(value) THEN <<>>
    ELSE (IF IsComposite(value[i])
          THEN flatten_segment_to_fields(value[i])
          ELSE <<safe_value(value[i])>>)
         \o flatten_value_items(value, i + 1)

\* lines 54-64: `for key, value in segment_data.items()`
flatten_dict_entries(entries, i) ==
    IF i > Len(entries) THEN <<>>
    ELSE LET value == entries[i].v
         IN (IF value.t = "dict" THEN flatten_segment_to_fields(value)
             ELSE IF value.t = "list" THEN flatten_value_items(value.items, 1)
             ELSE <<safe_value(value)>>)
            \o flatten_dict_entries(entries, i + 1)

\* Mutant of flatten_list_items: a composite item is skipped, not flattened
flatten_list_items_shallow(items, i) ==
    IF i > Len(items) THEN <<>>
    ELSE (IF IsComposite(items[i])
          THEN <<>>
          ELSE <<safe_value(items[i])>>)
         \o flatten_list_items(items, i + 1)

\* lines 66-70: `for item in segment_data`
flatten_list_items(items, i) ==
    IF i > Len(items) THEN <<>>
    ELSE (IF IsComposite(items[i])
          THEN flatten_segment_to_fields(items[i])
          ELSE <<safe_value(items[i])>>)
         \o flatten_list_items(items, i + 1)

flatten_segment_to_fields(segment_data) ==
    IF segment_data.t = "dict" THEN flatten_dict_entries(segment_data.items, 1)
    ELSE IF segment_data.t = "list" THEN flatten_list_items(segment_data.items, 1)
    ELSE <<safe_value(segment_data)>>

-----------------------------------------------------------------------------
(* generate_*_segment_row: the seven functions differ in the segment code   *)
(* and in the default of record.get only                                    *)

Raised == [ok |-> FALSE, val |-> "AttributeError"]
Returned(x) == [ok |-> TRUE, val |-> x]

EmptyCell == Str(<<>>)

\* row.extend(fields): the fields are str objects
AsCells(fields) == ListOf([i \in 1..Len(fields) |-> Str(fields[i])])

\* `while len(row) < 52: row.append('')`
pad_row(row) ==
    IF Len(row) < PadTo
    THEN row \o ListOf([i \in 1..(PadTo - Len(row)) |-> EmptyCell])
    ELSE row

\* Mutant of slice_row: the row is returned without the slice
slice_row_unbounded(row) == row

\* row[:59]
slice_row(row) == SubSeq(row, 1, Min(RowWidth, Len(row)))

\* The str of a segment code; the keys of a dict are TLA+ strings
SegmentName(code) ==
    CASE code = "PN" -> <<"P", "N">>
      [] code = "ID" -> <<"I", "D">>
      [] code = "PT" -> <<"P", "T">>
      [] code = "EC" -> <<"E", "C">>
      [] code = "PA" -> <<"P", "A">>
      [] code = "TL" -> <<"T", "L">>
      [] code = "TH" -> <<"T", "H">>

\* x.get(...) raises AttributeError unless x is a dict
HasGet(x) == x.t = "dict"

generate_segment_row(code, default, unique_id, record, garbage_per_segment) ==
    IF ~HasGet(record) THEN Raised
    ELSE
      LET seg == dict_get(record, code, default)
          row0 == <<unique_id, Str(SegmentName(code))>>
          row1 == IF Truthy(seg)
                  THEN row0 \o AsCells(flatten_segment_to_fields(seg))
                  ELSE row0
          row2 == pad_row(row1)
      IN IF Truthy(garbage_per_segment) /\ ~HasGet(garbage_per_segment)
         THEN Raised
         ELSE
           LET residual_value ==
                   IF Truthy(garbage_per_segment)
                   THEN safe_value(dict_get(garbage_per_segment, code, Null))
                   ELSE <<>>
               row3 == Append(row2, Str(residual_value))
               row4 == row3 \o <<EmptyCell, EmptyCell, EmptyCell, EmptyCell,
                                  EmptyCell, EmptyCell>>
           IN Returned(slice_row(row4))

EmptyDict == Dict(<<>>)
EmptyList == List(<<>>)

generate_pn_segment_row(unique_id, record, garbage_per_segment) ==
    generate_segment_row("PN", EmptyDict, unique_id, record, garbage_per_segment)
generate_id_segment_row(unique_id, record, garbage_per_segment) ==
    generate_segment_row("ID", EmptyList, unique_id, record, garbage_per_segment)
generate_pt_segment_row(unique_id, record, garbage_per_segment) ==
    generate_segment_row("PT", EmptyList, unique_id, record, garbage_per_segment)
generate_ec_segment_row(unique_id, record, garbage_per_segment) ==
    generate_segment_row("EC", EmptyDict, unique_id, record, garbage_per_segment)
generate_pa_segment_row(unique_id, record, garbage_per_segment) ==
    generate_segment_row("PA", EmptyList, unique_id, record, garbage_per_segment)
generate_tl_segment_row(unique_id, record, garbage_per_segment) ==
    generate_segment_row("TL", EmptyDict, unique_id, record, garbage_per_segment)
generate_th_segment_row(unique_id, record, garbage_per_segment) ==
    generate_segment_row("TH", EmptyList, unique_id, record, garbage_per_segment)

-----------------------------------------------------------------------------
(* The engine called on its own: the calls the model makes *)

Chars == {"a", " ", "\n", "\r", "\t", "|", VT, NBSP}
Strings == UNION {[1..k -> Chars] : k \in 0..MaxStrLen}

NewlineExample == <<"a", "\n", "b", "\r", "\n", "c">>
PipeExample == <<"x", "|", "y", "|", "|", "z">>

ScalarInputs ==
    {Str(s) : s \in Strings}
    \cup {Null, Str(NullWord), Str(<<" ", "n", "u", "l", "l">>),
          Str(NewlineExample), Str(PipeExample),
          Int_(0), Int_(-12), Int_(305), Bool(TRUE), Bool(FALSE)}

Leafs == {Null, Str(<<"b", "|", "c">>)}
Keys == <<"a", "b", "c", "d">>
ListsOf(S) == UNION {[1..k -> S] : k \in 0..MaxWidth}
MkDict(vals) == Dict(ListOf([i \in 1..Len(vals) |-> KV(Keys[i], vals[i])]))
Containers(S) == {List(q) : q \in ListsOf(S)} \cup {MkDict(q) : q \in ListsOf(S)}
Level1 == Containers(Leafs)
Level2 == Containers(Leafs \cup Level1)

\* flatten({"a": 1, "b": {"c": 2, "d": 3}}) and flatten([1, [2, 3], 4])
DictExample ==
    Dict(<<KV("a", Int_(1)),
           KV("b", Dict(<<KV("c", Int_(2)), KV("d", Int_(3))>>))>>)
ListExample == List(<<Int_(1), List(<<Int_(2), Int_(3)>>), Int_(4)>>)
DeepExample ==
    Dict(<<KV("a", List(<<Int_(1), Dict(<<KV("x", List(<<Null, Int_(2)>>))>>),
                          List(<<List(<<Str(<<" ", "p", "|">>)>>)>>)>>)),
           KV("b", Null),
           KV("c", Dict(<<KV("y", List(<<>>)), KV("z", Bool(TRUE))>>))>>)

FlattenInputs ==
    Level1 \cup Level2
    \cup {DictExample, ListExample, DeepExample, Null, Int_(7),
          Str(<<" ", "q", " ">>), Str(<<>>)}

SegmentCodes == <<"PN", "ID", "PT", "EC", "PA", "TL", "TH">>

\* Segment values that flatten to n distinct non-empty fields f1 .. fn
FieldLeaf(i) == Str(<<"f">> \o NatToStr(i))
FlatShape(n) == List(ListOf([i \in 1..n |-> FieldLeaf(i)]))
NestedShape(n) == List(ListOf([i \in 1..n |-> Dict(<<KV("v", FieldLeaf(i))>>)]))
DictShape(n) ==
    IF n = 0 THEN EmptyDict
    ELSE Dict(<<KV("first", FieldLeaf(1)),
                KV("rest", List(ListOf([i \in 1..(n - 1) |-> FieldLeaf(i + 1)])))>>)
FieldCounts ==
    {0, 1, PadTo - 3, PadTo - 2} \cup {PadTo - 2 + k : k \in 1..MaxOverflow}
SegmentValues ==
    {FlatShape(n) : n \in FieldCounts}
    \cup {NestedShape(n) : n \in FieldCounts}
    \cup {DictShape(n) : n \in FieldCounts}
    \cup {Str(<<"x", " ", "y">>), Int_(0), Null}

G1 == <<"g", "1">>
RecordInputs(code) ==
    {Dict(<<KV(code, v)>>) : v \in SegmentValues}
    \cup {EmptyDict, EmptyList, Null}
GarbageInputs(code) ==
    {Null, EmptyDict, EmptyList,
     Dict(<<KV(code, Str(G1))>>),
     Dict(<<KV(code, Str(<<" ", "g", "|", "\n", " ", "1">>))>>),
     Dict(<<KV(code, Null)>>),
     Dict(<<KV("XX", Str(G1))>>),
     Str(<<"j", "u", "n", "k">>)}
U1 == <<"U", "1">>

NoCall == [fn |-> "none"]
NoReturn == [fn |-> "none"]

InitEngine ==
    /\ \/ \E v \in ScalarInputs : call = [fn |-> "safe_value", val |-> v]
       \/ \E v \in FlattenInputs :
              call = [fn |-> "flatten_segment_to_fields", segment_data |-> v]
       \/ \E k \in 1..Len(SegmentCodes) :
          \E r \in RecordInputs(SegmentCodes[k]) :
          \E g \in GarbageInputs(SegmentCodes[k]) :
              call = [fn |-> "generate_segment_row", code |-> SegmentCodes[k],
                      unique_id |-> Str(U1), record |-> r,
                      garbage_per_segment |-> g]
    /\ ret = NoReturn
    /\ epc = "ready"
    /\ records = <<>>
    /\ pc = "idle"
    /\ idx = 0
    /\ all_rows_batch = <<>>
    /\ rows_written = 0
    /\ problematic_rows = 0
    /\ csvfile = <<>>

CallSafeValue ==
    /\ epc = "ready"
    /\ call.fn = "safe_value"
    /\ ret' = [fn |-> "safe_value", val |-> safe_value(call.val)]
    /\ epc' = "returned"
    /\ UNCHANGED <<call, pipelineVars>>

CallFlatten ==
    /\ epc = "ready"
    /\ call.fn = "flatten_segment_to_fields"
    /\ ret' = [fn |-> "flatten_segment_to_fields",
               val |-> flatten_segment_to_fields(call.segment_data)]
    /\ epc' = "returned"
    /\ UNCHANGED <<call, pipelineVars>>

\* The row function of a segment code
generate_row_of(code, unique_id, record, garbage_per_segment) ==
    CASE code = "PN" -> generate_pn_segment_row(unique_id, record, garbage_per_segment)
      [] code = "ID" -> generate_id_segment_row(unique_id, record, garbage_per_segment)
      [] code = "PT" -> generate_pt_segment_row(unique_id, record, garbage_per_segment)
      [] code = "EC" -> generate_ec_segment_row(unique_id, record, garbage_per_segment)
      [] code = "PA" -> generate_pa_segment_row(unique_id, record, garbage_per_segment)
      [] code = "TL" -> generate_tl_segment_row(unique_id, record, garbage_per_segment)
      [] code = "TH" -> generate_th_segment_row(unique_id, record, garbage_per_segment)

CallGenerateRow ==
    /\ epc = "ready"
    /\ call.fn = "generate_segment_row"
    /\ LET r == generate_row_of(call.code, call.unique_id, call.record,
                                call.garbage_per_segment)
       IN ret' = [fn |-> "generate_segment_row", ok |-> r.ok, val |-> r.val]
    /\ epc' = "returned"
    /\ UNCHANGED <<call, pipelineVars>>

NextEngine == CallSafeValue \/ CallFlatten \/ CallGenerateRow

SpecEngine == InitEngine /\ [][NextEngine]_vars

-----------------------------------------------------------------------------
(* generate_all_segment_rows *)

\* The rows of the calls, or the exception of the first call that raises
all_rows(results) ==
    IF \E k \in 1..Len(results) : ~results[k].ok THEN Raised
    ELSE Returned(ListOf([k \in 1..Len(results) |-> results[k].val]))

generate_all_segment_rows(unique_id, record, garbage_per_segment) ==
    all_rows(<<generate_pn_segment_row(unique_id, record, garbage_per_segment),
               generate_id_segment_row(unique_id, record, garbage_per_segment),
               generate_pt_segment_row(unique_id, record, garbage_per_segment),
               generate_ec_segment_row(unique_id, record, garbage_per_segment),
               generate_pa_segment_row(unique_id, record, garbage_per_segment),
               generate_tl_segment_row(unique_id, record, garbage_per_segment),
               generate_th_segment_row(unique_id, record, garbage_per_segment)>>)

-----------------------------------------------------------------------------
(* generate_csv_from_json: header, cleaning pass, batches *)

FieldRangeEnd == 51

header ==
    <<<<"U", "n", "i", "q", "u", "e", "_", "I", "D">>,
      <<"S", "e", "g", "m", "e", "n", "t", "_", "N", "a", "m", "e">>>>
    \o ListOf([i \in 1..(FieldRangeEnd - 1) |->
                  <<"F", "i", "e", "l", "d">> \o NatToStr(i)])
    \o <<<<"R", "e", "s", "i", "d", "u", "a", "l", "_", "V", "a", "l", "u", "e">>,
         <<"S", "y", "s", "t", "e", "m">>,
         <<"P", "r", "o", "c", "e", "s", "s", "i", "n", "g", "_", "S", "t", "a", "g", "e">>,
         <<"P", "r", "o", "c", "e", "s", "s", "i", "n", "g", "_", "S", "t", "a", "t", "u", "s">>,
         <<"B", "o", "t", "_", "S", "t", "a", "t", "u", "s">>,
         <<"F", "a", "i", "l", "u", "r", "e", "_", "R", "e", "a", "s", "o", "n">>,
         <<"F", "o", "r", "c", "e", "d", "_", "S", "t", "a", "t", "u", "s">>>>

\* Mutant of truncate_cell: the comparison is >= instead of >
truncate_cell_inclusive(cell_str) ==
    IF Len(cell_str) >= MaxCellLen
    THEN [s |-> str_prefix(cell_str, MaxCellLen), issue |-> 1]
    ELSE [s |-> cell_str, issue |-> 0]

\* lines 305-314: one cell of the cleaning pass; issue is what the cell adds
\* to problematic_rows
truncate_cell(cell_str) ==
    IF Len(cell_str) > MaxCellLen
    THEN [s |-> str_prefix(cell_str, MaxCellLen), issue |-> 1]
    ELSE [s |-> cell_str, issue |-> 0]

clean_cell(cell) ==
    IF cell.t = "str" /\ cell.s = <<>> THEN [s |-> <<>>, issue |-> 0]
    ELSE truncate_cell(str_strip(PyStr(cell)))

\* lines 303-316: one row of the cleaning pass: its cleaned cells and what
\* its cells add to problematic_rows
RECURSIVE SumIssue(_, _)
SumIssue(cleaned, c) ==
    IF c > Len(cleaned) THEN 0 ELSE cleaned[c].issue + SumIssue(cleaned, c + 1)

cleaned_cells(cleaned) ==
    [cleaned_row |-> ListOf([c \in 1..Len(cleaned) |-> cleaned[c].s]),
     issues |-> SumIssue(cleaned, 1)]

clean_row(row) == cleaned_cells(ListOf([c \in 1..Len(row) |-> clean_cell(row[c])]))

\* lines 300-320: the cleaning pass over the rows of one envelope
RECURSIVE SumIssues(_, _)
SumIssues(cleaned_rows, r) ==
    IF r > Len(cleaned_rows) THEN 0
    ELSE cleaned_rows[r].issues + SumIssues(cleaned_rows, r + 1)

cleaned_batch(cleaned_rows) ==
    [rows |-> ListOf([r \in 1..Len(cleaned_rows) |-> cleaned_rows[r].cleaned_row]),
     issues |-> SumIssues(cleaned_rows, 1)]

clean_rows(segment_rows) ==
    cleaned_batch(ListOf([r \in 1..Len(segment_rows) |-> clean_row(segment_rows[r])]))

\* lines 292-297: the fields of the envelope and its rows
envelope_rows(record_obj) ==
    IF ~HasGet(record_obj) THEN Raised
    ELSE generate_all_segment_rows(
             dict_get(record_obj, "unique_id", Null),
             dict_get(record_obj, "record", EmptyDict),
             dict_get(record_obj, "garbage_per_segment", EmptyDict))

\* line 283
WriteHeader ==
    /\ pc = "start"
    /\ csvfile' = <<header>>
    /\ pc' = "loop"
    /\ UNCHANGED <<records, idx, all_rows_batch, rows_written, problematic_rows>>
    /\ UNCHANGED engineVars

\* lines 291-320: one envelope generated, cleaned and added to the batch.
\* The exception of a malformed envelope (lines 292-297 are outside the try)
\* leaves the function; the file is closed with what was written to it.
HandleEnvelope ==
    /\ pc = "loop"
    /\ idx < Len(records)
    /\ LET got == envelope_rows(records[idx + 1])
       IN IF got.ok
          THEN LET cleaned == clean_rows(got.val)
               IN /\ all_rows_batch' = all_rows_batch \o cleaned.rows
                  /\ problematic_rows' = problematic_rows + cleaned.issues
                  /\ pc' = "batch_check"
          ELSE /\ pc' = "raised"
               /\ UNCHANGED <<all_rows_batch, problematic_rows>>
    /\ UNCHANGED <<records, idx, rows_written, csvfile>>
    /\ UNCHANGED engineVars

\* lines 323-327
BatchCheck ==
    /\ pc = "batch_check"
    /\ IF (idx + 1) % batch_size = 0
       THEN /\ csvfile' = csvfile \o all_rows_batch
            /\ rows_written' = rows_written + Len(all_rows_batch)
            /\ all_rows_batch' = <<>>
       ELSE UNCHANGED <<csvfile, rows_written, all_rows_batch>>
    /\ idx' = idx + 1
    /\ pc' = "loop"
    /\ UNCHANGED <<records, problematic_rows>>
    /\ UNCHANGED engineVars

\* Mutant of WriteRemaining: the remaining rows are not written
WriteRemaining_no_flush ==
    /\ pc = "loop"
    /\ idx = Len(records)
    /\ pc' = "done"
    /\ UNCHANGED <<records, idx, all_rows_batch, problematic_rows, csvfile,
                   rows_written>>
    /\ UNCHANGED engineVars

\* lines 330-343
WriteRemaining ==
    /\ pc = "loop"
    /\ idx = Len(records)
    /\ IF all_rows_batch # <<>>
       THEN /\ csvfile' = csvfile \o all_rows_batch
            /\ rows_written' = rows_written + Len(all_rows_batch)
       ELSE UNCHANGED <<csvfile, rows_written>>
    /\ pc' = "done"
    /\ UNCHANGED <<records, idx, all_rows_batch, problematic_rows>>
    /\ UNCHANGED engineVars

NextPipeline ==
    WriteHeader \/ HandleEnvelope \/ BatchCheck \/ WriteRemaining

-----------------------------------------------------------------------------
(* The documents the pipeline is run on *)

Uid(i) == Str(<<"U">> \o NatToStr(i))
LongStr(n) == ListOf([i \in 1..n |-> "a"])

PlainRecord ==
    Dict(<<KV("PN", Dict(<<KV("name", Str(<<"J", "o", "|", "h", "n">>))>>)),
           KV("ID", List(<<Dict(<<KV("type", Int_(1)),
                                  KV("no", Str(<<"A", " ", " ", "7">>))>>)>>))>>)

EnvelopeKinds ==
    <<"plain", "long", "overflow", "sparse", "bad_record", "bad_garbage">>

Envelope(kind, i) ==
    CASE kind = "plain" ->
           Dict(<<KV("unique_id", Uid(i)),
                  KV("record", PlainRecord),
                  KV("garbage_per_segment", Dict(<<KV("PN", Str(G1))>>))>>)
      [] kind = "long" ->
           Dict(<<KV("unique_id", Str(<<" ">> \o LongStr(MaxCellLen) \o <<VT>>)),
                  KV("record",
                     Dict(<<KV("PN", Dict(<<KV("name", Str(LongStr(MaxCellLen + MaxLong))),
                                            KV("alt", Str(LongStr(MaxCellLen)))>>))>>)),
                  KV("garbage_per_segment",
                     Dict(<<KV("TH", Str(LongStr(MaxCellLen + MaxLong)))>>))>>)
      [] kind = "overflow" ->
           Dict(<<KV("unique_id", Str(<<US>> \o Uid(i).s \o <<" ", NEL>>)),
                  KV("record", Dict(<<KV("TL", FlatShape(PadTo - 2 + MaxOverflow))>>)),
                  KV("garbage_per_segment", Dict(<<KV("TL", Str(G1))>>))>>)
      [] kind = "sparse" ->
           Dict(<<KV("record", Dict(<<KV("PN", EmptyDict)>>)),
                  KV("garbage_per_segment", Null)>>)
      [] kind = "bad_record" ->
           Dict(<<KV("unique_id", Uid(i)),
                  KV("record", EmptyList),
                  KV("garbage_per_segment", EmptyDict)>>)
      [] kind = "bad_garbage" ->
           Dict(<<KV("unique_id", Uid(i)),
                  KV("record", PlainRecord),
                  KV("garbage_per_segment", Str(<<"j", "u", "n", "k">>))>>)

\* Every document of at most MaxSmall envelopes over the kinds
SmallDocuments ==
    {ListOf([i \in 1..Len(q) |-> Envelope(EnvelopeKinds[q[i]], i)]) :
        q \in UNION {[1..k -> 1..Len(EnvelopeKinds)] : k \in 0..MaxSmall}}

\* The document that fills a batch: batch_size plain envelopes and
\* MaxExtra more
BatchDocuments ==
    {ListOf([i \in 1..(batch_size + MaxExtra) |-> Envelope("plain", i)])}

InitPipeline ==
    /\ records \in SmallDocuments \cup BatchDocuments
    /\ pc = "start"
    /\ idx = 0
    /\ all_rows_batch = <<>>
    /\ rows_written = 0
    /\ problematic_rows = 0
    /\ csvfile = <<>>
    /\ call = NoCall
    /\ ret = NoReturn
    /\ epc = "idle"

SpecPipeline == InitPipeline /\ [][NextPipeline]_vars

-----------------------------------------------------------------------------
(* Properties of the engine, checked under SpecEngine *)

RowReturned == epc = "returned" /\ call.fn = "generate_segment_row" /\ ret.ok
SafeValueReturned == epc = "returned" /\ call.fn = "safe_value"
FlattenReturned == epc = "returned" /\ call.fn = "flatten_segment_to_fields"

\* The flattened fields of the segment value of a row call
FieldsOfCall ==
    IF HasGet(call.record) /\ Truthy(dict_get(call.record, call.code, Null))
    THEN flatten_segment_to_fields(dict_get(call.record, call.code, Null))
    ELSE <<>>

\* sanitize(garbage_per_segment.get(segment_code)), or "" when
\* garbage_per_segment is falsy
ResidualOfCall ==
    IF Truthy(call.garbage_per_segment)
    THEN safe_value(dict_get(call.garbage_per_segment, call.code, Null))
    ELSE <<>>

\* C1: every row the segment row builder returns has exactly 59 cells,
\* whether the segment value is absent, empty, or flattens to fewer than 50,
\* exactly 50 or more than 50 values.
C1_RowHas59Cells == RowReturned => Len(ret.val) = RowWidth

\* C1 witness: a row was returned for a segment value of more than 50 fields
C1_Witness ==
    /\ RowReturned
    /\ Len(FieldsOfCall) > PadTo - 2
    /\ Len(ret.val) = RowWidth

\* C2 (as claimed): when the segment value flattens to n > 50 values, cells
\* 3..52 hold the first 50 of them in order, the row is cut to 52 cells before
\* the residual is appended (so cell 53 is the residual), and none of the
\* values 51..n is in a cell of the row.
C2_SurplusDropped ==
    (RowReturned /\ Len(FieldsOfCall) > PadTo - 2) =>
        /\ SubSeq(ret.val, 3, PadTo) = AsCells(SubSeq(FieldsOfCall, 1, PadTo - 2))
        /\ ret.val[PadTo + 1] = Str(ResidualOfCall)
        /\ \A j \in 3..Len(ret.val) :
           \A i \in (PadTo - 1)..Len(FieldsOfCall) :
               ret.val[j] # Str(FieldsOfCall[i])

\* C3 (as claimed): in every returned row cell 53 is the sanitized residual
\* of the segment ("" when garbage_per_segment is falsy or has no entry) and
\* cells 54..59 are empty.
C3_ResidualAndReserved ==
    RowReturned =>
        /\ Len(ret.val) = RowWidth
        /\ ret.val[PadTo + 1] = Str(ResidualOfCall)
        /\ \A j \in (PadTo + 2)..RowWidth : ret.val[j] = EmptyCell

\* The words of s: its maximal runs of characters that are not whitespace
RECURSIVE WordsOf(_, _, _)
WordsOf(s, i, word) ==
    IF i > Len(s) THEN (IF word = <<>> THEN <<>> ELSE <<word>>)
    ELSE IF IsSpace(s[i])
         THEN (IF word = <<>> THEN <<>> ELSE <<word>>) \o WordsOf(s, i + 1, <<>>)
         ELSE WordsOf(s, i + 1, Append(word, s[i]))

RECURSIVE SpaceJoined(_, _)
SpaceJoined(words, i) ==
    IF i > Len(words) THEN <<>>
    ELSE (IF i = 1 THEN <<>> ELSE <<" ">>) \o words[i] \o SpaceJoined(words, i + 1)

Dashed(s) == [i \in 1..Len(s) |-> IF s[i] = "|" THEN "-" ELSE s[i]]

MapsToEmpty(v) ==
    v.t = "null" \/ (v.t = "str" /\ (v.s = <<>> \/ v.s = NullWord))

\* C7: safe_value returns a string for every input: None, '' and 'null' give
\* ''; any other value gives the words of its str joined by single spaces,
\* with '-' for every '|'; the result has no newline, carriage return or '|',
\* no whitespace at either end and no two consecutive spaces.
C7_Sanitized ==
    SafeValueReturned =>
        /\ MapsToEmpty(call.val) => ret.val = <<>>
        /\ ~MapsToEmpty(call.val) =>
               ret.val = Dashed(SpaceJoined(WordsOf(PyStr(call.val), 1, <<>>), 1))
        /\ \A i \in 1..Len(ret.val) : ret.val[i] \notin {"\n", "\r", "|"}
        /\ ret.val # <<>> =>
               ~IsSpace(ret.val[1]) /\ ~IsSpace(ret.val[Len(ret.val)])
        /\ \A i \in 1..(Len(ret.val) - 1) :
               ~(ret.val[i] = " " /\ ret.val[i + 1] = " ")

\* C7 witness: sanitize("a\nb\r\nc") returned "a b c"
C7_Witness ==
    /\ SafeValueReturned
    /\ call.val = Str(NewlineExample)
    /\ ret.val = <<"a", " ", "b", " ", "c">>

\* The scalar leaves of a value in depth-first pre-order, sanitized
RECURSIVE Leaves(_), LeavesOfAll(_, _)
ChildrenOf(v) ==
    IF v.t = "dict" THEN [i \in 1..Len(v.items) |-> v.items[i].v] ELSE v.items
Leaves(v) ==
    IF IsComposite(v) THEN LeavesOfAll(ChildrenOf(v), 1) ELSE <<safe_value(v)>>
LeavesOfAll(children, i) ==
    IF i > Len(children) THEN <<>>
    ELSE Leaves(children[i]) \o LeavesOfAll(children, i + 1)

RECURSIVE CountLeaves(_), CountLeavesOfAll(_, _)
CountLeaves(v) ==
    IF IsComposite(v) THEN CountLeavesOfAll(ChildrenOf(v), 1) ELSE 1
CountLeavesOfAll(children, i) ==
    IF i > Len(children) THEN 0
    ELSE CountLeaves(children[i]) + CountLeavesOfAll(children, i + 1)

\* C8: flatten returns the sanitized scalar leaves of the value in depth-first
\* pre-order, one string per leaf (None included), nothing for an empty
\* mapping or sequence, one element for a top-level scalar.
C8_FlattenIsLeaves ==
    FlattenReturned =>
        /\ ret.val = Leaves(call.segment_data)
        /\ Len(ret.val) = CountLeaves(call.segment_data)

\* C8 witness: flatten of the nested DeepExample returned its six leaves
C8_Witness ==
    /\ FlattenReturned
    /\ call.segment_data = DeepExample
    /\ ret.val = <<<<"1">>, <<>>, <<"2">>, <<"p", "-">>, <<>>,
                   <<"T", "r", "u", "e">>>>

-----------------------------------------------------------------------------
(* Properties of the pipeline, checked under SpecPipeline *)

SegmentOrder == <<"PN", "ID", "PT", "EC", "PA", "TL", "TH">>
RowsPerEnvelope == Len(SegmentOrder)

\* The run is over: it returned, or an exception left the function
RunEnded == pc \in {"done", "raised"}

\* The envelope is one whose row generation returns
WellFormed(record_obj) == envelope_rows(record_obj).ok

\* The Unique_ID cell of an envelope after the cleaning pass
UniqueIdCell(record_obj) ==
    str_prefix(str_strip(PyStr(dict_get(record_obj, "unique_id", Null))),
               MaxCellLen)

\* C4 (as claimed): for any sequence of envelopes the sink holds the
\* 59-column header first and then, for each envelope in input order, 7 rows
\* with Segment_Name PN, ID, PT, EC, PA, TL, TH and the envelope's unique_id
\* in Unique_ID.
C4_SinkLayout ==
    RunEnded =>
        /\ Len(csvfile) = 1 + RowsPerEnvelope * Len(records)
        /\ csvfile[1] = header
        /\ Len(csvfile[1]) = RowWidth
        /\ \A i \in 1..Len(records) :
           \A k \in 1..RowsPerEnvelope :
               LET row == csvfile[1 + RowsPerEnvelope * (i - 1) + k]
               IN /\ row[1] = UniqueIdCell(records[i])
                  /\ row[2] = SegmentName(SegmentOrder[k])

\* C5 (as claimed): a failure while one envelope is processed is caught and
\* counted, the envelope's rows are skipped and the run continues: it never
\* aborts, and on return the rows of every well-formed envelope are in the
\* sink and the issue counter counts every failed envelope.
C5_FailureContained ==
    /\ pc # "raised"
    /\ pc = "done" =>
           LET good == {i \in 1..Len(records) : WellFormed(records[i])}
           IN /\ Len(csvfile) = 1 + RowsPerEnvelope * Cardinality(good)
              /\ problematic_rows >= Len(records) - Cardinality(good)

\* The string a cell is cleaned from, and the cell the claim expects
Trimmed(cell) == str_strip(PyStr(cell))
ExpectedCell(cell) ==
    IF Len(Trimmed(cell)) > MaxCellLen
    THEN SubSeq(Trimmed(cell), 1, MaxCellLen)
    ELSE Trimmed(cell)

\* What the step of one envelope must do to the batch and the counter
CleaningStep ==
    (pc = "loop" /\ pc' = "batch_check") =>
        LET rows == envelope_rows(records[idx + 1]).val
            base == Len(all_rows_batch)
            long == {rc \in (1..Len(rows)) \X (1..RowWidth) :
                        Len(Trimmed(rows[rc[1]][rc[2]])) > MaxCellLen}
        IN /\ Len(all_rows_batch') = base + Len(rows)
           /\ \A r \in 1..Len(rows) :
                  /\ Len(all_rows_batch'[base + r]) = Len(rows[r])
                  /\ \A c \in 1..Len(rows[r]) :
                         all_rows_batch'[base + r][c] = ExpectedCell(rows[r][c])
           /\ problematic_rows' = problematic_rows + Cardinality(long)

\* What a step may add to the sink
SinkStep ==
    \A r \in (Len(csvfile) + 1)..Len(csvfile') :
        /\ r > 1 => \A c \in 1..Len(csvfile'[r]) : Len(csvfile'[r][c]) <= MaxCellLen
        /\ csvfile'[r] = (IF r = 1 THEN header ELSE all_rows_batch[r - Len(csvfile)])

\* C6: in the cleaning pass every cell whose trimmed string form is longer
\* than 8000 characters becomes its first 8000 characters and adds one to the
\* issue counter, every other cell is kept and adds nothing, the row is still
\* added to the batch, and no data cell longer than 8000 characters is written
\* to the sink.
C6_LongCellsTruncated == [][CleaningStep /\ SinkStep]_vars

\* C6 witness: the run returned with issues counted, and the sink holds a row
\* with a cell of exactly 8000 characters
C6_Witness ==
    /\ pc = "done"
    /\ problematic_rows > 0
    /\ \E r \in 2..Len(csvfile) : \E c \in 1..Len(csvfile[r]) :
           Len(csvfile[r][c]) = MaxCellLen

\* C9: the batch never holds more than 7 * batch_size rows; between envelopes
\* it holds the rows of the envelopes handled since the last multiple of
\* batch_size, everything before that multiple being in the sink; and on
\* return the rows of the final partial batch are in the sink too.
C9_BatchBounded ==
    /\ Len(all_rows_batch) <= RowsPerEnvelope * batch_size
    /\ pc = "loop" =>
           /\ Len(all_rows_batch) = RowsPerEnvelope * (idx % batch_size)
           /\ Len(csvfile) = 1 + RowsPerEnvelope * (idx - (idx % batch_size))
    /\ pc = "batch_check" =>
           Len(all_rows_batch) = RowsPerEnvelope * ((idx % batch_size) + 1)
    /\ pc = "done" => Len(csvfile) = 1 + RowsPerEnvelope * Len(records)

\* C9 witness: a run over a document shorter than batch_size returned with
\* its partial batch, the rows of all its envelopes, in the sink
C9_Witness ==
    /\ pc = "done"
    /\ Len(records) = MaxSmall
    /\ Len(all_rows_batch) = RowsPerEnvelope * MaxSmall
    /\ rows_written = Len(all_rows_batch)
    /\ SubSeq(csvfile, 2, Len(csvfile)) = all_rows_batch

\* C10 (as claimed): between envelopes rows_written plus the rows in the batch
\* is the number of rows generated so far; when the run is over every
\* generated row is in the sink exactly once, in order, and rows_written is
\* the number of data rows in the sink.
C10_Accounting ==
    /\ pc = "loop" =>
           rows_written + Len(all_rows_batch) = RowsPerEnvelope * idx
    /\ RunEnded =>
           /\ rows_written = Len(csvfile) - 1
           /\ Len(csvfile) = 1 + RowsPerEnvelope * idx
           /\ \A i \in 1..idx :
                  SubSeq(csvfile, 2 + RowsPerEnvelope * (i - 1),
                         1 + RowsPerEnvelope * i)
                      = clean_rows(envelope_rows(records[i]).val).rows

====
